---- MODULE Spec2Model ----
(***************************************************************************)
(* Model of the postgres convenience layer: the Client facade              *)
(* (dbWrapper, src/wrapper.go) and the generic DAO                         *)
(* (src/repository/dao/dao.go).                                            *)
(*                                                                         *)
(* The Client is one shared, mutable object: its field tx is read and      *)
(* written by every goroutine that uses the DAO.  The database behind the  *)
(* pooled connection is modelled by what go-pg and PostgreSQL document:    *)
(* a transaction buffers its writes until COMMIT, ROLLBACK discards them,  *)
(* a statement on the pooled connection is visible at once.                *)
(***************************************************************************)
EXTENDS Naturals, Integers, Sequences, FiniteSets, TLC

\* ------------------------------------------------------------------ bounds
NumProcs == 2       \* goroutines using the one DAO / Client
MaxTx    == 2       \* transactions the pool hands out before Begin fails
NumCtx   == 1       \* independent cancellable contexts
MaxOps   == 1       \* DAO operations (or nested WithTX calls) one fn issues
MaxDepth == 2       \* nesting depth of WithTX calls

Procs  == 1..NumProcs
TxIds  == 1..MaxTx
CtxIds == 1..NumCtx

\* ------------------------------------------------------------ basic values
\* The nil *pg.Tx: the zero value of dbWrapper.tx, and what getTxFromContext
\* returns for a context without a transaction.
NoTx == 0

\* A context.Context: the cancellation scope it belongs to and the value
\* stored under TxKey (NoTx when there is none).
Ctx == [id : CtxIds, tx : TxIds \cup {NoTx}]

BaseCtx(c) == [id |-> c, tx |-> NoTx]

\* newTxContext: context.WithValue keeps the parent's cancellation.
newTxContext(ctx, tx) == [id |-> ctx.id, tx |-> tx]

\* getTxFromContext: the *pg.Tx stored under TxKey, or nil.
getTxFromContext(ctx) == ctx.tx

\* pkgerr.Convert: translation of a driver error to an application error
\* kind; nil stays nil.
Convert(err) ==
    CASE err = "nil"       -> "nil"
      [] err = "ErrNoRows" -> "NotFound"
      [] OTHER             -> "Internal"

\* Rows written by the fn of the WithTX call that began transaction own
\* (NoTx for a call that joined a running transaction), k-th operation.
Rows == (TxIds \cup {NoTx}) \X (1..MaxOps)

VARIABLES
    wtx,        \* dbWrapper.tx
    wctx,       \* dbWrapper.ctx
    txStatus,   \* per transaction: "unused", "active", "committed", "rolledback"
    txWrites,   \* per transaction: rows written inside it, not yet visible
    dbRows,     \* rows visible to a read on the pooled connection
    ctxDone,    \* per context: ctx.Err() != nil
    stack,      \* per goroutine: the frames of its running WithTX calls
    panicked,   \* per goroutine: it died of a nil pointer dereference
    lastRet,    \* the WithTX call that returned in the last step, if any
    lastOp,     \* the DAO operation executed in the last step, if any
    utable,     \* table with the unique key (name, inn): key -> other columns
    ucall,      \* the last DAO.Upsert call: its arguments and its outcome
    table,      \* table "agent": primary key id -> columns
    dcall,      \* the last DAO.Update call: its arguments and its outcome
    updatedField, \* DAO.updatedField
    deletedField, \* DAO.deletedField
    now,        \* the reading of time.Now() in the next DAO call
    stable,     \* table "agent" with its timestamp columns: id -> columns
    scall,      \* the last UpdateWhere / SoftDelete / FindOne call
    mig,        \* the Migrator.Run call: its position and what it did
    schemas,    \* the database's schemas, each with what it holds
    applied,    \* number of migrations of the source applied so far
    opPc,       \* per goroutine: the Client data operation it is inside
    opEvent     \* the Client operation that ran last: where it was sent

txVars == <<wtx, wctx, txStatus, txWrites, dbRows, ctxDone, stack, panicked,
            lastRet, lastOp>>

upsertVars == <<utable, ucall>>

daoVars == <<table, dcall, updatedField>>

storeVars == <<deletedField, now, stable, scall>>

migVars == <<mig, schemas, applied>>

opVars == <<opPc, opEvent>>

moreVars == <<storeVars, migVars, opVars>>

vars == <<txVars, upsertVars, daoVars, moreVars>>

NoOp == [proc |-> 0, recv |-> FALSE, fnTx |-> NoTx, target |-> NoTx, ok |-> FALSE]

NoRet == [proc |-> 0, own |-> NoTx, err |-> "nil", done |-> FALSE,
          cend |-> FALSE, res |-> "nil", writes |-> {}, acted |-> NoTx,
          fin |-> "none"]

\* The frame of a WithTX call that has just been entered with ctx.
NewFrame(ctx) ==
    [ctx |-> ctx, pc |-> "check", own |-> NoTx, fnTx |-> NoTx, fctx |-> ctx,
     opctx |-> ctx, ops |-> 0, err |-> "nil", done |-> FALSE,
     writes |-> {}, acted |-> NoTx, fin |-> "none"]

\* A table without rows.
NoRows == [k \in {} |-> {}]

\* No DAO.Upsert / DAO.Update call has been made yet.
NoUpsert == [kind |-> "none", recs |-> <<>>, keys |-> <<>>, cols |-> {},
             unique |-> <<>>, err |-> "none", before |-> NoRows]

NoUpdate == [kind |-> "none", recs |-> <<>>, cols |-> {}, err |-> "none",
             before |-> NoRows]

\* dao.go:29-35  New: the DAO's field names.
InitDAO == updatedField = "updated" /\ deletedField = "deleted"

\* No UpdateWhere / SoftDelete / FindOne call has been made yet.
NoStoreCall == [op |-> "none", err |-> "none", before |-> NoRows]

\* The parts of the state that a run of another operation never touches.
IdleStore == now = 1 /\ stable = NoRows /\ scall = NoStoreCall

SchemaNames == {"public", "custom"}

\* No Migrator has been run.
NoMig == [pc |-> "idle", cleanScheme |-> <<>>, i |-> 1, log |-> <<>>,
          res |-> "none", cleanErr |-> "none", dirty |-> FALSE,
          before |-> 0, migrated |-> 0]

IdleMig ==
    /\ mig = NoMig
    /\ schemas = [s \in SchemaNames |-> "absent"]
    /\ applied = 0

\* No goroutine is inside a Client data operation.
NoOpEvent == [proc |-> 0, op |-> "none", branch |-> NoTx, target |-> NoTx,
              active |-> NoTx, died |-> FALSE]

IdleOps == opPc = [p \in Procs |-> [op |-> "none", branch |-> NoTx]] /\ opEvent = NoOpEvent

InitTx ==
    /\ wtx = NoTx
    /\ wctx = BaseCtx(1)
    /\ txStatus = [t \in TxIds |-> "unused"]
    /\ txWrites = [t \in TxIds |-> {}]
    /\ dbRows = {}
    /\ ctxDone = [c \in CtxIds |-> FALSE]
    /\ stack = [p \in Procs |-> <<>>]
    /\ panicked = [p \in Procs |-> FALSE]
    /\ lastRet = NoRet
    /\ lastOp = NoOp

\* ------------------------------------------------------------- the driver
Unused == {t \in TxIds : txStatus[t] = "unused"}

\* pg.DB.Begin hands out the next transaction.
NewTx == CHOOSE t \in Unused : \A u \in Unused : t <= u

\* ---------------------------------------------------------------- frames
Depth(p) == Len(stack[p])
Top(p) == stack[p][Depth(p)]
Running(p) == Depth(p) > 0 /\ ~panicked[p]
At(p, pc) == Running(p) /\ Top(p).pc = pc

SetTop(p, f) == [stack EXCEPT ![p] = [@ EXCEPT ![Depth(p)] = f]]

\* The WithTX call on top of p's stack returns res; the caller, when it is
\* an enclosing fn, goes on.
Return(p, f, res) ==
    LET rest == SubSeq(stack[p], 1, Depth(p) - 1)
        back == IF rest = <<>> THEN rest
                ELSE [rest EXCEPT ![Len(rest)] =
                        [@ EXCEPT !.pc = "fn", !.ops = @ + 1]]
    IN /\ stack' = [stack EXCEPT ![p] = back]
       /\ lastRet' = [proc |-> p, own |-> f.own, err |-> f.err,
                       done |-> f.done, cend |-> ctxDone[f.ctx.id],
                       res |-> res, writes |-> f.writes,
                       acted |-> f.acted, fin |-> f.fin]

\* A nil pointer dereference in goroutine p: nothing of its WithTX calls
\* runs any more (WithTX defers nothing).
Panic(p) ==
    /\ panicked' = [panicked EXCEPT ![p] = TRUE]
    /\ stack' = stack
    /\ lastRet' = NoRet

\* ------------------------------------------------------- Client (dbWrapper)
\* dbWrapper.WithContext: stores ctx and replaces tx by the transaction ctx
\* carries, or by nil; the receiver itself is returned.
WithContext(ctx) ==
    /\ wctx' = ctx
    /\ wtx' = getTxFromContext(ctx)

\* pg.Tx.Commit on an open transaction: COMMIT succeeds and publishes the
\* writes (ok), or fails and the transaction is closed without them.
TxCommit(t, ok) ==
    /\ txStatus' = [txStatus EXCEPT ![t] = IF ok THEN "committed" ELSE "rolledback"]
    /\ dbRows' = IF ok THEN dbRows \cup txWrites[t] ELSE dbRows

\* pg.Tx.Rollback on an open transaction: the writes are discarded.
TxRollback(t) ==
    /\ txStatus' = [txStatus EXCEPT ![t] = "rolledback"]
    /\ dbRows' = dbRows

\* dbWrapper.Insert of one row: on the transaction in w.tx when there is
\* one, on the pooled connection otherwise.  A closed transaction refuses.
InsertTarget == wtx

InsertOk == InsertTarget = NoTx \/ txStatus[InsertTarget] = "active"

Insert(row) ==
    /\ txWrites' = IF InsertTarget # NoTx /\ InsertOk
                   THEN [txWrites EXCEPT ![InsertTarget] = @ \cup {row}]
                   ELSE txWrites
    /\ dbRows' = IF InsertTarget = NoTx THEN dbRows \cup {row} ELSE dbRows

\* ------------------------------------------------------------- DAO.WithTX
\* A goroutine calls WithTX(ctx, fn): at top level with a plain context, or
\* from inside a running fn with the context fn received or a plain one.
CallWithTX(p, ctx) ==
    /\ ~panicked[p]
    /\ \/ /\ Depth(p) = 0
          /\ ctx.tx = NoTx
       \/ /\ At(p, "fn")
          /\ Depth(p) < MaxDepth
          /\ Top(p).ops < MaxOps
          /\ ctx \in {Top(p).fctx, BaseCtx(Top(p).ctx.id)}
    /\ stack' = [stack EXCEPT ![p] = Append(@, NewFrame(ctx))]
    /\ UNCHANGED <<wtx, wctx, txStatus, txWrites, dbRows, ctxDone, panicked>>
    /\ lastRet' = NoRet
    /\ lastOp' = NoOp
    /\ UNCHANGED <<upsertVars, daoVars, moreVars>>

\* dao.go:62-64  if r.db.Tx() != nil { return fn(ctx) }
WithTXCheck(p) ==
    /\ At(p, "check")
    /\ LET f == Top(p) IN
         stack' = SetTop(p,
            IF wtx # NoTx
            THEN [f EXCEPT !.pc = "fn", !.fctx = f.ctx, !.fnTx = wtx]
            ELSE [f EXCEPT !.pc = "withctx"])
    /\ UNCHANGED <<wtx, wctx, txStatus, txWrites, dbRows, ctxDone, panicked>>
    /\ lastRet' = NoRet
    /\ lastOp' = NoOp
    /\ UNCHANGED <<upsertVars, daoVars, moreVars>>

\* dao.go:66  r.db.WithContext(ctx)
WithTXWithContext(p) ==
    /\ At(p, "withctx")
    /\ WithContext(Top(p).ctx)
    /\ stack' = SetTop(p, [Top(p) EXCEPT !.pc = "starttx"])
    /\ UNCHANGED <<txStatus, txWrites, dbRows, ctxDone, panicked>>
    /\ lastRet' = NoRet
    /\ lastOp' = NoOp
    /\ UNCHANGED <<upsertVars, daoVars, moreVars>>

\* dao.go:66-69 with wrapper.go:38-46  StartTx: Begin, then w.tx = tx; the
\* call goes on to fn(newTxContext(ctx, tx)).  A failed Begin returns the
\* converted error.
WithTXStartTx(p) ==
    /\ At(p, "starttx")
    /\ LET f == Top(p) IN
       \/ /\ Unused # {}
          /\ txStatus' = [txStatus EXCEPT ![NewTx] = "active"]
          /\ wtx' = NewTx
          /\ stack' = SetTop(p, [f EXCEPT !.pc = "fn", !.own = NewTx,
                                          !.fnTx = NewTx,
                                          !.fctx = newTxContext(f.ctx, NewTx)])
          /\ lastRet' = NoRet
       \/ /\ Unused = {}
          /\ Return(p, f, Convert("beginErr"))
          /\ UNCHANGED <<wtx, txStatus>>
    /\ UNCHANGED <<wctx, txWrites, dbRows, ctxDone, panicked>>
    /\ lastOp' = NoOp
    /\ UNCHANGED <<upsertVars, daoVars, moreVars>>

\* fn issues a DAO operation, here DAO.Insert(c, rec): dao.go:179 first
\* calls r.db.WithContext(c).  c is the context fn received or a plain one.
FnOpWithContext(p, c) ==
    /\ At(p, "fn")
    /\ Top(p).ops < MaxOps
    /\ c \in {Top(p).fctx, BaseCtx(Top(p).ctx.id)}
    /\ WithContext(c)
    /\ stack' = SetTop(p, [Top(p) EXCEPT !.pc = "op", !.opctx = c])
    /\ UNCHANGED <<txStatus, txWrites, dbRows, ctxDone, panicked>>
    /\ lastRet' = NoRet
    /\ lastOp' = NoOp
    /\ UNCHANGED <<upsertVars, daoVars, moreVars>>

\* ... and then Insert on the Client that WithContext returned.
FnOpInsert(p) ==
    /\ At(p, "op")
    /\ LET f == Top(p)
           row == <<f.own, f.ops + 1>>
           recv == f.opctx = f.fctx
       IN /\ Insert(row)
          /\ lastOp' =
                [proc |-> p, recv |-> recv, fnTx |-> f.fnTx, target |-> InsertTarget,
                 ok |-> InsertOk]
          /\ stack' = SetTop(p, [f EXCEPT !.pc = "fn", !.ops = @ + 1,
                !.writes = IF recv /\ InsertOk /\ f.own # NoTx
                           THEN @ \cup {row} ELSE @])
    /\ UNCHANGED <<wtx, wctx, txStatus, ctxDone, panicked>>
    /\ lastRet' = NoRet
    /\ UNCHANGED <<upsertVars, daoVars, moreVars>>

\* fn returns err.  dao.go:63 hands it on when the call joined a running
\* transaction; dao.go:71 otherwise decides between rollback and commit.
FnReturn(p, err) ==
    /\ At(p, "fn")
    /\ LET f == Top(p) IN
         IF f.own = NoTx
         THEN Return(p, f, err)
         ELSE /\ stack' = SetTop(p, [f EXCEPT
                    !.err = err, !.done = ctxDone[f.ctx.id],
                    !.pc = IF err # "nil" \/ ctxDone[f.ctx.id]
                           THEN "rollback" ELSE "commit"])
              /\ lastRet' = NoRet
    /\ UNCHANGED <<wtx, wctx, txStatus, txWrites, dbRows, ctxDone, panicked>>
    /\ lastOp' = NoOp
    /\ UNCHANGED <<upsertVars, daoVars, moreVars>>

\* dao.go:72 with wrapper.go:56-60  r.db.Rollback(): w.tx.Rollback(), then
\* w.tx = nil.  The error is only logged.
WithTXRollback(p) ==
    /\ At(p, "rollback")
    /\ IF wtx = NoTx
       THEN /\ Panic(p)
            /\ UNCHANGED <<wtx, txStatus, dbRows>>
       ELSE /\ IF txStatus[wtx] = "active"
               THEN TxRollback(wtx)
               ELSE UNCHANGED <<txStatus, dbRows>>
            /\ wtx' = NoTx
            /\ stack' = SetTop(p, [Top(p) EXCEPT !.pc = "rbret", !.acted = wtx,
                    !.fin = IF txStatus[wtx] = "active" THEN "rollback" ELSE "none"])
            /\ UNCHANGED panicked
            /\ lastRet' = NoRet
    /\ UNCHANGED <<wctx, txWrites, ctxDone>>
    /\ lastOp' = NoOp
    /\ UNCHANGED <<upsertVars, daoVars, moreVars>>

\* dao.go:76-79  return ctx.Err() when it is set, fn's error otherwise.
WithTXRollbackReturn(p) ==
    /\ At(p, "rbret")
    /\ LET f == Top(p) IN
         Return(p, f, IF ctxDone[f.ctx.id] THEN "ctxErr" ELSE f.err)
    /\ UNCHANGED <<wtx, wctx, txStatus, txWrites, dbRows, ctxDone, panicked>>
    /\ lastOp' = NoOp
    /\ UNCHANGED <<upsertVars, daoVars, moreVars>>

\* dao.go:82-85 with wrapper.go:49-53  r.db.Commit(): w.tx.Commit(), then
\* w.tx = nil; the converted error, or nil, is returned.
WithTXCommit(p) ==
    /\ At(p, "commit")
    /\ IF wtx = NoTx
       THEN /\ Panic(p)
            /\ UNCHANGED <<wtx, txStatus, dbRows>>
       ELSE /\ wtx' = NoTx
            /\ UNCHANGED panicked
            /\ IF txStatus[wtx] = "active"
               THEN \E ok \in BOOLEAN :
                      /\ TxCommit(wtx, ok)
                      /\ Return(p, [Top(p) EXCEPT !.acted = wtx,
                                      !.fin = IF ok THEN "commit" ELSE "rollback"],
                                Convert(IF ok THEN "nil" ELSE "commitErr"))
               ELSE /\ UNCHANGED <<txStatus, dbRows>>
                    /\ Return(p, [Top(p) EXCEPT !.acted = wtx],
                              Convert("ErrTxDone"))
    /\ UNCHANGED <<wctx, txWrites, ctxDone>>
    /\ lastOp' = NoOp
    /\ UNCHANGED <<upsertVars, daoVars, moreVars>>

\* The environment cancels a context, or its deadline passes.
CancelCtx(c) ==
    /\ ~ctxDone[c]
    /\ ctxDone' = [ctxDone EXCEPT ![c] = TRUE]
    /\ UNCHANGED <<wtx, wctx, txStatus, txWrites, dbRows, stack, panicked>>
    /\ lastRet' = NoRet
    /\ lastOp' = NoOp
    /\ UNCHANGED <<upsertVars, daoVars, moreVars>>

\* Nothing has been stored or asked of the DAO's tables.
Init ==
    /\ InitTx
    /\ InitDAO
    /\ utable = NoRows /\ ucall = NoUpsert
    /\ table = NoRows /\ dcall = NoUpdate
    /\ IdleStore /\ IdleMig /\ IdleOps

Next ==
    \/ \E p \in Procs, c \in Ctx : CallWithTX(p, c)
    \/ \E p \in Procs : WithTXCheck(p)
    \/ \E p \in Procs : WithTXWithContext(p)
    \/ \E p \in Procs : WithTXStartTx(p)
    \/ \E p \in Procs, c \in Ctx : FnOpWithContext(p, c)
    \/ \E p \in Procs : FnOpInsert(p)
    \/ \E p \in Procs, e \in {"nil", "fnErr"} : FnReturn(p, e)
    \/ \E p \in Procs : WithTXRollback(p)
    \/ \E p \in Procs : WithTXRollbackReturn(p)
    \/ \E p \in Procs : WithTXCommit(p)
    \/ \E c \in CtxIds : CancelCtx(c)

Spec == Init /\ [][Next]_vars

\* ------------------------------------- the Client's own transaction calls
\* A goroutine that is not inside WithTX uses the deprecated transaction
\* methods of the Client directly.

\* wrapper.go:38-46  StartTx
ClientStartTx(p) ==
    /\ Depth(p) = 0 /\ ~panicked[p]
    /\ Unused # {}
    /\ txStatus' = [txStatus EXCEPT ![NewTx] = "active"]
    /\ wtx' = NewTx
    /\ UNCHANGED <<wctx, txWrites, dbRows, ctxDone, stack, panicked>>
    /\ lastRet' = NoRet
    /\ lastOp' = NoOp
    /\ UNCHANGED <<upsertVars, daoVars, moreVars>>

\* wrapper.go:49-53  Commit
ClientCommit(p) ==
    /\ Depth(p) = 0 /\ ~panicked[p]
    /\ IF wtx = NoTx
       THEN /\ panicked' = [panicked EXCEPT ![p] = TRUE]
            /\ UNCHANGED <<wtx, txStatus, dbRows>>
       ELSE /\ wtx' = NoTx
            /\ UNCHANGED panicked
            /\ IF txStatus[wtx] = "active"
               THEN \E ok \in BOOLEAN : TxCommit(wtx, ok)
               ELSE UNCHANGED <<txStatus, dbRows>>
    /\ UNCHANGED <<wctx, txWrites, ctxDone, stack>>
    /\ lastRet' = NoRet
    /\ lastOp' = NoOp
    /\ UNCHANGED <<upsertVars, daoVars, moreVars>>

\* wrapper.go:56-60  Rollback
ClientRollback(p) ==
    /\ Depth(p) = 0 /\ ~panicked[p]
    /\ IF wtx = NoTx
       THEN /\ panicked' = [panicked EXCEPT ![p] = TRUE]
            /\ UNCHANGED <<wtx, txStatus, dbRows>>
       ELSE /\ wtx' = NoTx
            /\ UNCHANGED panicked
            /\ IF txStatus[wtx] = "active"
               THEN TxRollback(wtx)
               ELSE UNCHANGED <<txStatus, dbRows>>
    /\ UNCHANGED <<wctx, txWrites, ctxDone, stack>>
    /\ lastRet' = NoRet
    /\ lastOp' = NoOp
    /\ UNCHANGED <<upsertVars, daoVars, moreVars>>

\* wrapper.go:71-75  WithContext with a plain context or with one that
\* carries a transaction begun earlier.
ClientWithContext(p, ctx) ==
    /\ Depth(p) = 0 /\ ~panicked[p]
    /\ IF ctx.tx = NoTx THEN TRUE ELSE txStatus[ctx.tx] # "unused"
    /\ WithContext(ctx)
    /\ UNCHANGED <<txStatus, txWrites, dbRows, ctxDone, stack, panicked>>
    /\ lastRet' = NoRet
    /\ lastOp' = NoOp
    /\ UNCHANGED <<upsertVars, daoVars, moreVars>>

\* The steps of a WithTX call of goroutine p, and of the fn it runs.
WithTXStep(p) ==
    \/ \E c \in Ctx : CallWithTX(p, c)
    \/ WithTXCheck(p)
    \/ WithTXWithContext(p)
    \/ WithTXStartTx(p)
    \/ \E c \in Ctx : FnOpWithContext(p, c)
    \/ FnOpInsert(p)
    \/ \E e \in {"nil", "fnErr"} : FnReturn(p, e)
    \/ WithTXRollback(p)
    \/ WithTXRollbackReturn(p)
    \/ WithTXCommit(p)

\* The last goroutine uses the Client directly, the others through the DAO.
ClientProc == NumProcs

NextClient ==
    \/ \E p \in Procs \ {ClientProc} : WithTXStep(p)
    \/ \E c \in CtxIds : CancelCtx(c)
    \/ ClientStartTx(ClientProc)
    \/ ClientCommit(ClientProc)
    \/ ClientRollback(ClientProc)
    \/ \E c \in Ctx : ClientWithContext(ClientProc, c)

SpecClient == Init /\ [][NextClient]_vars

\* ============================================================ DAO.Upsert
MaxRecs == 2        \* records in one slice passed to Upsert

\* Strings are sequences of characters.  The values of the key columns:
KeyStr == {<<"a">>, <<"a", "_", "a">>}

\* A record of the model type: the key columns name and inn, the column
\* state and the column level, which the Upsert calls here never list.
UpsertModels == [name : KeyStr, inn : KeyStr, state : {"s1", "s2"},
                 level : {"given"}]

\* A row stored before the call, without its key columns.
StoredRow == [state |-> "s0", level |-> "kept"]

\* The tables the call may find: any set of keys, each with a stored row.
UTables == UNION {[K -> {StoredRow}] : K \in SUBSET (KeyStr \X KeyStr)}

\* orm.GetTable(...).FieldsMap[key].GoName: the struct field of a column.
GoName(key) ==
    CASE key = "name"  -> "Name"
      [] key = "inn"   -> "INN"
      [] key = "state" -> "State"
      [] OTHER         -> "Level"

\* reflect.Value.FieldByName
FieldByName(model, goName) ==
    CASE goName = "Name"  -> model.name
      [] goName = "INN"   -> model.inn
      [] goName = "State" -> <<model.state>>
      [] OTHER            -> <<model.level>>

\* fmt.Sprint of a string field prints its characters.
Sprint(v) == v

\* strings.Join
RECURSIVE Join(_, _)
Join(values, sep) ==
    IF values = <<>> THEN <<>>
    ELSE IF Len(values) = 1 THEN values[1]
    ELSE values[1] \o sep \o Join(Tail(values), sep)

\* dao.go:224-229
GoNames(keys) == [i \in DOMAIN keys |-> GoName(keys[i])]

\* dao.go:234-240  the key function Upsert hands to GetUniqueModels.
KeyOf(model, goNames) ==
    Join([i \in DOMAIN goNames |-> Sprint(FieldByName(model, goNames[i]))],
         <<"_">>)

\* A loop that keeps the first model of a key instead of the last.
RowsMapKeepFirst(models, goNames) ==
    LET R[i \in 0..Len(models)] ==
          IF i = 0 THEN NoRows
          ELSE LET k == KeyOf(models[i], goNames) IN
               [x \in DOMAIN R[i-1] \cup {k} |->
                    IF x \in DOMAIN R[i-1] THEN R[i-1][x] ELSE models[i]]
    IN R[Len(models)]

\* dao.go:287-303  GetUniqueModels' loop: rows[f(model)] = model for every
\* element of the slice, in order.
RowsMap(models, goNames) ==
    LET R[i \in 0..Len(models)] ==
          IF i = 0 THEN NoRows
          ELSE LET k == KeyOf(models[i], goNames) IN
               [x \in DOMAIN R[i-1] \cup {k} |->
                    IF x = k THEN models[i] ELSE R[i-1][x]]
    IN R[Len(models)]

\* dao.go:305-310  the map's values, in the order the map iteration yields
\* them: any order.
MapOrders(rows) ==
    {o \in [1..Cardinality(DOMAIN rows) -> DOMAIN rows] :
        \A a, b \in DOMAIN o : a # b => o[a] # o[b]}

\* dao.go:286-311  GetUniqueModels: every result the call can return.
GetUniqueModels(models, goNames) ==
    LET rows == RowsMap(models, goNames) IN
    {[i \in DOMAIN o |-> rows[o[i]]] : o \in MapOrders(rows)}

\* The value of the conflict target (name, inn) of a record.
UKey(model) == <<model.name, model.inn>>

\* INSERT ... ON CONFLICT (name, inn) DO UPDATE SET c = EXCLUDED.c for one
\* record: a new key is inserted with all its columns, an existing row gets
\* the listed columns.
UpsertOne(tbl, model, cols) ==
    LET k == UKey(model)
        given == [state |-> model.state, level |-> model.level]
    IN IF k \in DOMAIN tbl
       THEN [tbl EXCEPT ![k] = [c \in DOMAIN @ |->
                                  IF c \in cols THEN given[c] ELSE @[c]]]
       ELSE [x \in DOMAIN tbl \cup {k} |-> IF x = k THEN given ELSE tbl[x]]

\* The whole statement, record by record.
UpsertAll(tbl, models, cols) ==
    LET T[i \in 0..Len(models)] ==
          IF i = 0 THEN tbl ELSE UpsertOne(T[i-1], models[i], cols)
    IN T[Len(models)]

\* PostgreSQL refuses a statement that proposes one key twice.
ProposesTwice(models) ==
    \E a, b \in DOMAIN models : a # b /\ UKey(models[a]) = UKey(models[b])

\* dao.go:219-259  DAO.Upsert(ctx, recs, keys, columns...): recs is a
\* slice (kind "slice") or a pointer to one record (kind "ptr").
Upsert(kind, recs, keys, cols) ==
    /\ ucall.kind = "none"
    /\ kind = "ptr" => Len(recs) = 1
    /\ LET call == [kind |-> kind, recs |-> recs, keys |-> keys, cols |-> cols,
                    unique |-> <<>>, err |-> "nil", before |-> utable]
       IN
       IF Len(keys) = 0
       THEN /\ ucall' = [call EXCEPT !.err = "BadRequest"]
            /\ utable' = utable
       ELSE IF kind = "slice" /\ Len(recs) = 0
       THEN \* getType: reflect's Index(0) of an empty slice panics
            /\ ucall' = [call EXCEPT !.err = "panic"]
            /\ utable' = utable
       ELSE \E models \in IF kind = "slice"
                          THEN GetUniqueModels(recs, GoNames(keys))
                          ELSE {recs} :
              IF Len(models) = 0
              THEN /\ ucall' = [call EXCEPT !.err = "BadRequest"]
                   /\ utable' = utable
              ELSE \E fails \in BOOLEAN :
                     IF fails \/ ProposesTwice(models)
                     THEN /\ ucall' = [call EXCEPT !.unique = models,
                                                   !.err = "pgErr"]
                          /\ utable' = utable
                     ELSE /\ ucall' = [call EXCEPT !.unique = models]
                          /\ utable' = UpsertAll(utable, models, cols)
    /\ UNCHANGED <<txVars, daoVars, moreVars>>

\* The slices of at most MaxRecs records.
RecSlices == UNION {[1..n -> UpsertModels] : n \in 0..MaxRecs}

NextUpsert ==
    \E kind \in {"slice", "ptr"}, recs \in RecSlices,
       keys \in {<<>>, <<"name", "inn">>},
       cols \in {{"state"}, {"state", "level"}} :
          Upsert(kind, recs, keys, cols)

InitUpsert ==
    /\ InitTx
    /\ InitDAO
    /\ utable \in UTables /\ ucall = NoUpsert
    /\ table = NoRows /\ dcall = NoUpdate
    /\ IdleStore /\ IdleMig /\ IdleOps

SpecUpsert == InitUpsert /\ [][NextUpsert]_vars

\* ============================================================ DAO.Update
MaxId == 2          \* primary keys of the table "agent"

Ids == 1..MaxId

\* The columns of a row besides its primary key.  "changed" stands for a
\* timestamp column that SetUpdatedField can name instead of "updated".
Columns == {"name", "inn", "updated", "changed"}

\* A stored row holds "old" in every column; a record passed to the DAO
\* holds "old" or "new" in each.
Tables == UNION {[S -> {[c \in Columns |-> "old"]}] : S \in SUBSET Ids}

Records == [id : Ids, name : {"old", "new"}, inn : {"old", "new"},
            updated : {"old", "new"}, changed : {"old", "new"}]

\* A slice of records, one per primary key of S, each new in every column.
NewRecords(S) ==
    LET R[n \in 0..MaxId] ==
          IF n = 0 THEN <<>>
          ELSE IF n \in S
               THEN Append(R[n-1], [id |-> n, name |-> "new", inn |-> "new",
                                    updated |-> "new", changed |-> "new"])
               ELSE R[n-1]
    IN R[MaxId]

\* dao.go:37-42  SetUpdatedField
SetUpdatedField(fieldName) ==
    /\ dcall.kind = "none"
    /\ updatedField' = IF fieldName = "" THEN updatedField ELSE fieldName
    /\ UNCHANGED <<table, dcall, txVars, upsertVars, moreVars>>

\* An UPDATE that sets every column of the record, as Client.Update does.
UpdateRowAllColumns(tbl, rec, cols) ==
    IF rec.id \in DOMAIN tbl
    THEN [tbl EXCEPT ![rec.id] = [c \in Columns |-> rec[c]]]
    ELSE tbl

\* dao.go:131-136  Model(rec).Column(columns...).WherePK().Update():
\* UPDATE agent SET c = rec.c, ... WHERE id = rec.id, c over the columns.
UpdateRow(tbl, rec, cols) ==
    IF rec.id \in DOMAIN tbl
    THEN [tbl EXCEPT ![rec.id] = [c \in Columns |->
                                    IF c \in cols THEN rec[c] ELSE @[c]]]
    ELSE tbl

\* The bulk form for a slice: every record updates the row of its key.
UpdateRows(tbl, recs, cols) ==
    LET T[i \in 0..Len(recs)] ==
          IF i = 0 THEN tbl ELSE UpdateRow(T[i-1], recs[i], cols)
    IN T[Len(recs)]

\* dao.go:129-142  DAO.Update(ctx, rec, columns...): rec points to one
\* record (kind "ptr") or to a slice of records (kind "slice").
Update(kind, recs, columns) ==
    /\ dcall.kind = "none"
    /\ kind = "ptr" => Len(recs) = 1
    /\ Len(recs) > 0
    /\ LET cols == columns \cup {updatedField}
           call == [kind |-> kind, recs |-> recs, cols |-> columns,
                    err |-> "nil", before |-> table]
       IN \E fails \in BOOLEAN :
            IF fails
            THEN /\ dcall' = [call EXCEPT !.err = Convert("pgErr")]
                 /\ table' = table
            ELSE /\ dcall' = call
                 /\ table' = UpdateRows(table, recs, cols)
    /\ UNCHANGED <<updatedField, txVars, upsertVars, moreVars>>

NextUpdate ==
    \/ \E fieldName \in {"", "updated", "changed"} : SetUpdatedField(fieldName)
    \/ \E rec \in Records, columns \in SUBSET {"name", "inn"} :
          Update("ptr", <<rec>>, columns)
    \/ \E S \in SUBSET Ids, columns \in SUBSET {"name", "inn"} :
          Update("slice", NewRecords(S), columns)

InitUpdate ==
    /\ InitTx
    /\ InitDAO
    /\ utable = NoRows /\ ucall = NoUpsert
    /\ table \in Tables /\ dcall = NoUpdate
    /\ IdleStore /\ IdleMig /\ IdleOps

SpecUpdate == InitUpdate /\ [][NextUpdate]_vars

\* ===================================== DAO.UpdateWhere, SoftDelete, FindOne
MaxTime == 4        \* clock readings, in half microseconds

Times == 1..MaxTime

\* The zero time.Time, and the value of a timestamp column never written.
ZeroTime == 0

\* A TIMESTAMP column keeps microseconds: the driver sends the nanoseconds
\* of a time.Time and the database rounds them to the nearest microsecond.
Stamp(t) == ((t + 1) \div 2) * 2

Stamps == {Stamp(t) : t \in Times}

\* The rows of table "agent".  "changed" and "removed" stand for timestamp
\* columns that SetUpdatedField and SetDeletedField can name instead of
\* "updated" and "deleted".  The "updated" column is written by whoever
\* inserted the row, with its own clock.
StoredRows == [name : {"n1", "n2"}, inn : {"i1"}, updated : Stamps,
               changed : {ZeroTime}, deleted : {ZeroTime}, removed : {ZeroTime}]

STables == UNION {[S -> StoredRows] : S \in SUBSET Ids}

\* opt.Eq(col, val): a predicate on one column.
Eq(col, val) == [col |-> col, val |-> val]

\* opt.Apply(opts...): the WHERE clause is the conjunction of the predicates.
Matches(opts, row) == \A i \in DOMAIN opts : row[opts[i].col] = opts[i].val

OptLists == {<<>>, <<Eq("name", "n1")>>, <<Eq("name", "n2")>>,
             <<Eq("inn", "i1"), Eq("name", "n1")>>}

\* A Go value passed as interface{}: its dynamic type and the value.
Val(kind, v) == [kind |-> kind, v |-> v]

\* The value a column holds after the driver has written a Go value to it.
ColumnValue(x) == IF x.kind = "time" THEN Stamp(x.v) ELSE x.v

PairLists == {<<>>,
              <<Val("string", "inn"), Val("string", "i2")>>,
              <<Val("string", "name"), Val("string", "n2")>>,
              <<Val("string", "inn"), Val("string", "i2"),
                Val("string", "name"), Val("string", "n2")>>,
              <<Val("string", "inn")>>,
              <<Val("int", "1"), Val("string", "i2")>>,
              <<Val("string", "updated"), Val("time", 1)>>}

\* dao.go:44-49  SetDeletedField
SetDeletedField(fieldName) ==
    /\ scall.op = "none"
    /\ deletedField' = IF fieldName = "" THEN deletedField ELSE fieldName
    /\ UNCHANGED <<now, stable, scall, txVars, upsertVars, daoVars, migVars, opVars>>

\* The columns named by the pairs of a SET list, in order.
SetColumns(sets) == [j \in 1..(Len(sets) \div 2) |-> sets[2 * j - 1].v]

\* Two assignments to one column: the database rejects the statement.
SetsColumnTwice(sets) ==
    \E j, k \in 1..(Len(sets) \div 2) :
        j # k /\ sets[2 * j - 1].v = sets[2 * k - 1].v

\* An UPDATE whose WHERE clause is lost: every row is written.
ApplySetsEveryRow(tbl, opts, sets) ==
    [id \in DOMAIN tbl |->
        [c \in DOMAIN tbl[id] |->
            IF \E j \in 1..(Len(sets) \div 2) : sets[2 * j - 1].v = c
            THEN LET j == CHOOSE j \in 1..(Len(sets) \div 2) : sets[2 * j - 1].v = c
                 IN ColumnValue(sets[2 * j])
            ELSE tbl[id][c]]]

\* dao.go:150-157  Model(rec).Apply(opts).Set(column = ?, value)....Update():
\* UPDATE agent SET column = value, ... WHERE opts.
ApplySets(tbl, opts, sets) ==
    [id \in DOMAIN tbl |->
        IF Matches(opts, tbl[id])
        THEN [c \in DOMAIN tbl[id] |->
                IF \E j \in 1..(Len(sets) \div 2) : sets[2 * j - 1].v = c
                THEN LET j == CHOOSE j \in 1..(Len(sets) \div 2) : sets[2 * j - 1].v = c
                     IN ColumnValue(sets[2 * j])
                ELSE tbl[id][c]]
        ELSE tbl[id]]

\* dao.go:145-164  DAO.UpdateWhere(ctx, rec, opts, setFieldValuePairs...)
UpdateWhere(opts, pairs) ==
    /\ scall.op = "none"
    /\ LET call == [op |-> "UpdateWhere", opts |-> opts, pairs |-> pairs,
                    now |-> now, field |-> updatedField, err |-> "nil",
                    before |-> stable]
           sets == pairs \o <<Val("string", updatedField), Val("time", now)>>
       IN IF Len(pairs) % 2 # 0
          THEN /\ scall' = [call EXCEPT !.err = "Internal"]
               /\ stable' = stable
          ELSE IF \E j \in 1..(Len(sets) \div 2) : sets[2 * j - 1].kind # "string"
          THEN /\ scall' = [call EXCEPT !.err = "Internal"]
               /\ stable' = stable
          ELSE \E fails \in BOOLEAN :
                 IF fails \/ opts = <<>> \/ SetsColumnTwice(sets)
                 THEN /\ scall' = [call EXCEPT !.err = Convert("pgErr")]
                      /\ stable' = stable
                 ELSE /\ scall' = call
                      /\ stable' = ApplySets(stable, opts, sets)
    /\ UNCHANGED <<deletedField, now, txVars, upsertVars, daoVars, migVars, opVars>>

\* The columns that hold a timestamp.
TimeColumns == {"updated", "changed", "deleted", "removed"}

\* The records passed to SoftDelete: a model whose SetDeleted assigns the
\* field of column setter.
SRecords == [id : Ids, name : {"n1"}, inn : {"i1"}, updated : {ZeroTime, 3},
             changed : {ZeroTime}, deleted : {ZeroTime}, removed : {ZeroTime},
             setter : {"deleted", "removed"}]

\* DeletedSetter.SetDeleted of the model: it stores the time in its field.
SetDeleted(rec, t) == [rec EXCEPT ![rec.setter] = t]

\* dao.go:129-142  Model(rec).Column(columns...).WherePK().Update() on the
\* table with timestamp columns; a record without a row updates nothing.
UpdatePK(tbl, rec, cols) ==
    IF rec.id \in DOMAIN tbl
    THEN [tbl EXCEPT ![rec.id] =
            [c \in DOMAIN @ |->
                IF c \in cols
                THEN IF c \in TimeColumns THEN Stamp(rec[c]) ELSE rec[c]
                ELSE @[c]]]
    ELSE tbl

\* A delete that removes the row instead of marking it.
SoftDeleteRowRemoves(tbl, rec, delField, updField) ==
    [id \in DOMAIN tbl \ {rec.id} |-> tbl[id]]

\* dao.go:190  r.Update(ctx, rec, r.deletedField)
SoftDeleteRow(tbl, rec, delField, updField) ==
    UpdatePK(tbl, rec, {delField, updField})

\* dao.go:188-196  DAO.SoftDelete(ctx, rec)
SoftDelete(rec) ==
    /\ scall.op = "none"
    /\ LET marked == SetDeleted(rec, now)
           call == [op |-> "SoftDelete", rec |-> rec, marked |-> marked,
                    now |-> now, field |-> deletedField, err |-> "nil",
                    before |-> stable]
       IN \E fails \in BOOLEAN :
            IF fails
            THEN /\ scall' = [call EXCEPT !.err = Convert(Convert("pgErr"))]
                 /\ stable' = stable
            ELSE /\ scall' = call
                 /\ stable' = SoftDeleteRow(stable, marked, deletedField, updatedField)
    /\ UNCHANGED <<deletedField, now, txVars, upsertVars, daoVars, migVars, opVars>>

\* wrapper.go:88-93  Select(model): the row with the model's primary key.
Select(tbl, id) == IF id \in DOMAIN tbl THEN {tbl[id]} ELSE {}

\* Query.First on a struct model: ORDER BY id LIMIT 1; without a row the
\* driver reports pg.ErrNoRows and leaves the model alone.
First(tbl, opts) ==
    LET m == {id \in DOMAIN tbl : Matches(opts, tbl[id])}
    IN IF m = {}
       THEN [err |-> "ErrNoRows", recv |-> {}]
       ELSE LET id == CHOOSE i \in m : \A k \in m : i <= k
            IN [err |-> "nil", recv |-> {[id |-> id, row |-> tbl[id]]}]

\* A FindOne that drops the driver's error.
FindOneResultNil(res) == [err |-> "nil", recv |-> res.recv]

\* dao.go:90-95  the error of First is converted, nil stays nil.
FindOneResult(res) == [err |-> Convert(res.err), recv |-> res.recv]

\* dao.go:89-96  DAO.FindOne(ctx, receiver, opts): receiver points to a
\* zero struct.
FindOne(opts) ==
    /\ scall.op = "none"
    /\ \E fails \in BOOLEAN :
         LET res == IF fails THEN [err |-> "pgErr", recv |-> {}]
                    ELSE First(stable, opts)
             out == FindOneResult(res)
         IN scall' = [op |-> "FindOne", opts |-> opts, ran |-> ~fails,
                      err |-> out.err, recv |-> out.recv, before |-> stable]
    /\ UNCHANGED <<deletedField, now, stable, txVars, upsertVars, daoVars, migVars, opVars>>

NextStore ==
    \/ \E fieldName \in {"", "updated", "changed"} : SetUpdatedField(fieldName)
    \/ \E fieldName \in {"", "deleted", "removed"} : SetDeletedField(fieldName)
    \/ \E opts \in OptLists, pairs \in PairLists : UpdateWhere(opts, pairs)
    \/ \E rec \in SRecords : SoftDelete(rec)
    \/ \E opts \in OptLists : FindOne(opts)

InitStore ==
    /\ InitTx
    /\ InitDAO
    /\ utable = NoRows /\ ucall = NoUpsert
    /\ table = NoRows /\ dcall = NoUpdate
    /\ now \in Times /\ stable \in STables /\ scall = NoStoreCall
    /\ IdleMig /\ IdleOps

SpecStore == InitStore /\ [][NextStore]_vars

\* ============================================================ Migrator.Run
MaxSchemes == 2       \* schemas listed in Migrator.cleanScheme
NumMigrations == 2    \* migration files of the source

CleanLists == UNION {[1..n -> SchemaNames] : n \in 0..MaxSchemes}

\* The statements cleanDatabase sends for every listed schema, in order.
RECURSIVE CleanLog(_)
CleanLog(schemes) ==
    IF schemes = <<>> THEN <<>>
    ELSE <<<<"drop", Head(schemes)>>, <<"create", Head(schemes)>>>>
         \o CleanLog(Tail(schemes))

\* part_003:38-51  sql.Open, then the clean loop when schemas are listed.
MigOpen ==
    /\ mig.pc = "open"
    /\ \E fails \in BOOLEAN :
         mig' = IF fails THEN [mig EXCEPT !.pc = "done", !.res = "openErr"]
                ELSE IF Len(mig.cleanScheme) > 0
                     THEN [mig EXCEPT !.pc = "clean"]
                     ELSE [mig EXCEPT !.pc = "instance"]
    /\ UNCHANGED <<schemas, applied, txVars, upsertVars, daoVars, storeVars, opVars>>

\* A clean loop that goes on after a failed cleanDatabase.
AfterCleanIgnoresError(m, err) ==
    IF m.i < Len(m.cleanScheme)
    THEN [m EXCEPT !.i = @ + 1]
    ELSE [m EXCEPT !.pc = "instance"]

\* part_003:46-50  the loop body: an error of cleanDatabase ends Run.
AfterClean(m, err) ==
    IF err # "nil"
    THEN [m EXCEPT !.pc = "done", !.res = err]
    ELSE IF m.i < Len(m.cleanScheme)
         THEN [m EXCEPT !.i = @ + 1]
         ELSE [m EXCEPT !.pc = "instance"]

\* part_003:97-108  cleanDatabase(db, schema): DROP SCHEMA schema CASCADE,
\* then CREATE SCHEMA schema.  The migration engine keeps its version table
\* in schema "public": dropping that schema forgets what was applied.
CleanDatabase ==
    /\ mig.pc = "clean"
    /\ LET schema == mig.cleanScheme[mig.i]
       IN \E dropFails, createFails \in BOOLEAN :
            LET dropErr == dropFails \/ schemas[schema] = "absent"
                err == IF dropErr THEN "dropErr"
                       ELSE IF createFails THEN "createErr" ELSE "nil"
                log == IF dropErr THEN mig.log
                       ELSE IF createFails
                            THEN Append(mig.log, <<"drop", schema>>)
                            ELSE mig.log \o <<<<"drop", schema>>, <<"create", schema>>>>
                forgets == ~dropErr /\ schema = "public"
            IN /\ mig' = [AfterClean(mig, err) EXCEPT
                            !.log = log,
                            !.cleanErr = IF err # "nil" THEN err ELSE @,
                            !.dirty = IF forgets THEN FALSE ELSE @]
               /\ schemas' = [schemas EXCEPT ![schema] =
                                IF dropErr THEN @
                                ELSE IF createFails THEN "absent" ELSE "empty"]
               /\ applied' = IF forgets THEN 0 ELSE applied
    /\ UNCHANGED <<txVars, upsertVars, daoVars, storeVars, opVars>>

\* part_003:53-61  postgres.WithInstance and migrate.NewWithDatabaseInstance:
\* the driver needs the current schema to keep its version table in.
MigInstance ==
    /\ mig.pc = "instance"
    /\ \E fails \in BOOLEAN :
         IF fails \/ schemas["public"] = "absent"
         THEN /\ mig' = [mig EXCEPT !.pc = "done", !.res = "instanceErr"]
              /\ schemas' = schemas
         ELSE /\ mig' = [mig EXCEPT !.pc = "version"]
              /\ schemas' = [schemas EXCEPT !["public"] = "used"]
    /\ UNCHANGED <<applied, txVars, upsertVars, daoVars, storeVars, opVars>>

\* part_003:63-72  migration.Version(): the version applied last, or an
\* error with version 0, which Run ignores.
MigVersion ==
    /\ mig.pc = "version"
    /\ \E fails \in BOOLEAN :
         LET beforeVersion == IF fails THEN 0 ELSE applied
             err == IF fails \/ applied = 0 THEN "versionErr" ELSE "nil"
         IN mig' = IF err # "nil" /\ beforeVersion # 0
                   THEN [mig EXCEPT !.pc = "done", !.res = err]
                   ELSE [mig EXCEPT !.pc = "up", !.before = beforeVersion]
    /\ UNCHANGED <<schemas, applied, txVars, upsertVars, daoVars, storeVars, opVars>>

\* part_003:74-80  migration.Up(): applies the pending migrations in order
\* and stops at the first that fails, leaving the version dirty; without a
\* pending migration it reports ErrNoChange, on a dirty version ErrDirty.
MigUp ==
    /\ mig.pc = "up"
    /\ \E n \in applied..NumMigrations :
         LET err == IF mig.dirty THEN "ErrDirty"
                    ELSE IF applied = NumMigrations THEN "ErrNoChange"
                    ELSE IF n < NumMigrations THEN "upErr"
                    ELSE "nil"
             to == IF mig.dirty THEN applied ELSE n
             m == [mig EXCEPT !.log = Append(@, <<"up", "">>),
                              !.migrated = to - applied,
                              !.dirty = @ \/ err = "upErr"]
         IN /\ mig' = IF err # "nil" /\ err # "ErrNoChange"
                      THEN [m EXCEPT !.pc = "done", !.res = err]
                      ELSE [m EXCEPT !.pc = "version2"]
            /\ applied' = to
    /\ UNCHANGED <<schemas, txVars, upsertVars, daoVars, storeVars, opVars>>

\* part_003:82-93  the second migration.Version(), then return nil.
MigVersionAfter ==
    /\ mig.pc = "version2"
    /\ \E fails \in BOOLEAN :
         LET err == IF fails \/ applied = 0 THEN "versionErr" ELSE "nil"
         IN mig' = IF err # "nil" /\ mig.before # 0
                   THEN [mig EXCEPT !.pc = "done", !.res = err]
                   ELSE [mig EXCEPT !.pc = "done", !.res = "nil"]
    /\ UNCHANGED <<schemas, applied, txVars, upsertVars, daoVars, storeVars, opVars>>

NextMigrate ==
    \/ MigOpen
    \/ CleanDatabase
    \/ MigInstance
    \/ MigVersion
    \/ MigUp
    \/ MigVersionAfter

\* part_003:24-35  NewMigrator with the clean schemes of its options, on a
\* database some of whose migrations may have been applied before.
InitMigrate ==
    /\ InitTx
    /\ InitDAO
    /\ utable = NoRows /\ ucall = NoUpsert
    /\ table = NoRows /\ dcall = NoUpdate
    /\ IdleStore /\ IdleOps
    /\ schemas \in [SchemaNames -> {"absent", "used"}]
    /\ applied \in 0..NumMigrations
    /\ \E cs \in CleanLists, dirty \in BOOLEAN :
         /\ schemas["public"] = "absent" => applied = 0
         /\ dirty => applied > 0
         /\ mig = [NoMig EXCEPT !.pc = "open", !.cleanScheme = cs, !.dirty = dirty]

SpecMigrate == InitMigrate /\ [][NextMigrate]_vars

\* ================================================= Client data operations
DataOps == {"Select", "Insert", "Update", "Delete", "ForceDelete", "Exec",
            "Query", "CopyFrom", "CopyTo"}

\* wrapper.go:89, 97, 107, 117, 128, 157, 185, 193, 231  `if w.tx != nil`:
\* the operation reads w.tx to choose between transaction and connection.
\* dbWrapper.wrappedProcessor is never set, so Exec and Query call their
\* processor directly.
OpBranch(p, op) ==
    /\ Depth(p) = 0 /\ ~panicked[p]
    /\ opPc[p].op = "none"
    /\ opPc' = [opPc EXCEPT ![p] = [op |-> op, branch |-> wtx]]
    /\ UNCHANGED <<opEvent, txVars, upsertVars, daoVars, storeVars, migVars>>

\* The connection an operation is sent to after it has chosen its branch
\* with the value branch of w.tx and then found read in w.tx: the pooled
\* connection (NoTx) or the transaction read.
OpTarget(branch, read) == IF branch = NoTx THEN NoTx ELSE read

\* wrapper.go:90-92, 98-100, ...  w.tx.Model(...)... or w.conn.Model(...)...:
\* the call on w.tx uses the value loaded for the branch or loads w.tx
\* again (the field is read without synchronisation); a call on a nil
\* *pg.Tx is a nil pointer dereference.
OpRun(p) ==
    /\ opPc[p].op # "none" /\ ~panicked[p]
    /\ \E read \in {opPc[p].branch, wtx} :
         LET dies == opPc[p].branch # NoTx /\ read = NoTx
         IN /\ opEvent' = [proc |-> p, op |-> opPc[p].op,
                           branch |-> opPc[p].branch,
                           target |-> OpTarget(opPc[p].branch, read),
                           active |-> wtx, died |-> dies]
            /\ panicked' = [panicked EXCEPT ![p] = dies]
    /\ opPc' = [opPc EXCEPT ![p] = [op |-> "none", branch |-> NoTx]]
    /\ UNCHANGED <<wtx, wctx, txStatus, txWrites, dbRows, ctxDone, stack,
                   lastRet, lastOp>>
    /\ UNCHANGED <<upsertVars, daoVars, storeVars, migVars>>

\* wrapper.go:71-75  WithContext(ctx) called on the Client.
OpWithContext(p, ctx) ==
    /\ Depth(p) = 0 /\ ~panicked[p]
    /\ opPc[p].op = "none"
    /\ IF ctx.tx = NoTx THEN TRUE ELSE txStatus[ctx.tx] # "unused"
    /\ WithContext(ctx)
    /\ opEvent' = [proc |-> p, op |-> "WithContext",
                   branch |-> getTxFromContext(ctx), target |-> wtx',
                   active |-> wtx, died |-> FALSE]
    /\ UNCHANGED <<txStatus, txWrites, dbRows, ctxDone, stack, panicked,
                   lastRet, lastOp, opPc>>
    /\ UNCHANGED <<upsertVars, daoVars, storeVars, migVars>>

\* Goroutines that share the Client: each calls StartTx, Commit, Rollback,
\* WithContext and the data operations.
NextOps ==
    \/ \E p \in Procs, op \in DataOps : OpBranch(p, op)
    \/ \E p \in Procs : OpRun(p)
    \/ \E p \in Procs, c \in Ctx : OpWithContext(p, c)
    \/ \E p \in Procs : opPc[p].op = "none" /\ ClientStartTx(p)
    \/ \E p \in Procs : opPc[p].op = "none" /\ ClientCommit(p)
    \/ \E p \in Procs : opPc[p].op = "none" /\ ClientRollback(p)

SpecOps == Init /\ [][NextOps]_vars

\* ================================================================ claims
ActiveTx == {t \in TxIds : txStatus[t] = "active"}

\* C1: at every point of every interleaving of StartTx, Commit, Rollback,
\* WithContext and DAO.WithTX calls on one Client, at most one transaction
\* begun through that Client is active.
AtMostOneActiveTx == Cardinality(ActiveTx) <= 1

\* C2: a transaction that WithTX began is committed or rolled back when
\* that WithTX call ends, whatever fn did with the DAO in between: a call
\* that has returned, or died, leaves no transaction of its own active.
TornDownOnReturn ==
    /\ lastRet.own # NoTx => txStatus[lastRet.own] # "active"
    /\ \A p \in Procs : panicked[p] =>
          \A i \in 1..Depth(p) :
             stack[p][i].own # NoTx => txStatus[stack[p][i].own] # "active"

\* C3: a DAO operation that fn issues with the context it received from
\* WithTX executes on the transaction fn was invoked in, and that
\* transaction is open: never on the pooled connection.
FnRunsInTx ==
    lastOp.recv => /\ lastOp.target # NoTx
                   /\ lastOp.target = lastOp.fnTx
                   /\ lastOp.ok

\* C4: when fn returns nil and the context is not done at that point, the
\* WithTX call that began the transaction returns nil or the converted
\* commit error; after nil the transaction is committed and every write fn
\* made through the transaction context is visible outside.
CommitOnSuccess ==
    /\ (lastRet.own # NoTx /\ lastRet.err = "nil" /\ ~lastRet.done) =>
          /\ lastRet.res \in {"nil", Convert("commitErr")}
          /\ lastRet.res = "nil" =>
                /\ txStatus[lastRet.own] = "committed"
                /\ lastRet.writes \subseteq dbRows
    /\ \A p \in Procs : ~(panicked[p] /\ Depth(p) > 0 /\ Top(p).pc = "commit")

\* C5: when fn returns an error and the context is not done, the WithTX
\* call that began the transaction returns exactly that error, the
\* transaction is rolled back and none of fn's writes through the
\* transaction context is visible.
RollbackOnError ==
    /\ (lastRet.own # NoTx /\ lastRet.err # "nil" /\ ~lastRet.cend) =>
          /\ lastRet.res = lastRet.err
          /\ txStatus[lastRet.own] = "rolledback"
          /\ lastRet.writes \cap dbRows = {}
    /\ \A p \in Procs : ~(panicked[p] /\ Depth(p) > 0 /\ Top(p).pc = "rollback"
                           /\ Top(p).err # "nil")

\* C6: when the context is done as fn returns, whether fn returned nil or
\* an error, the WithTX call that began the transaction rolls it back and
\* returns ctx.Err().
RollbackOnCtxDone ==
    /\ (lastRet.own # NoTx /\ lastRet.done) =>
          /\ lastRet.res = "ctxErr"
          /\ txStatus[lastRet.own] = "rolledback"
    /\ \A p \in Procs : ~(panicked[p] /\ Depth(p) > 0 /\ Top(p).pc = "rollback"
                           /\ Top(p).done)

\* C7: with WithTX calls running concurrently on one DAO, each call ends
\* the transaction it began itself: its commit or rollback acts on its own
\* transaction, the writes of a call that returned nil are committed and
\* those of a call that returned an error are not.
OwnTxFinished ==
    lastRet.own # NoTx =>
        /\ lastRet.acted = lastRet.own
        /\ lastRet.res = "nil" => lastRet.writes \subseteq dbRows
        /\ lastRet.res # "nil" => lastRet.writes \cap dbRows = {}

\* The Upsert call went through GetUniqueModels.
Deduplicated ==
    ucall.kind = "slice" /\ ucall.err \in {"nil", "pgErr"}

\* The last record of recs with the key of model.
LastWithKey(recs, model, goNames) ==
    recs[CHOOSE i \in DOMAIN recs :
            /\ KeyOf(recs[i], goNames) = KeyOf(model, goNames)
            /\ \A j \in DOMAIN recs :
                  KeyOf(recs[j], goNames) = KeyOf(model, goNames) => j <= i]

\* C8: GetUniqueModels returns exactly one model per distinct value of the
\* key function over the input slice, for each key the last model of the
\* input with that key, and no model that is not in the input.
UniqueModelsLastWins ==
    Deduplicated =>
       LET g == GoNames(ucall.keys) IN
       /\ \A i \in DOMAIN ucall.recs :
            Cardinality({j \in DOMAIN ucall.unique :
               KeyOf(ucall.unique[j], g) = KeyOf(ucall.recs[i], g)}) = 1
       /\ \A j \in DOMAIN ucall.unique :
            /\ \E i \in DOMAIN ucall.recs : ucall.unique[j] = ucall.recs[i]
            /\ ucall.unique[j] = LastWithKey(ucall.recs, ucall.unique[j], g)

\* Two records of the input share a key and differ, and the call went on.
UniqueModelsWitness ==
    /\ Deduplicated
    /\ \E a, b \in DOMAIN ucall.recs :
          /\ a < b
          /\ UKey(ucall.recs[a]) = UKey(ucall.recs[b])
          /\ ucall.recs[a] # ucall.recs[b]
    /\ Len(ucall.unique) = 1

\* C9: after a successful Upsert every key value that occurs in recs has
\* its row, whose listed columns are those of the last record of recs with
\* that key (an existing row keeps its other columns, a new row is the
\* record); the rows of all other keys are as before.
UpsertStoresEveryKey ==
    ucall.err = "nil" =>
       LET keysIn == {UKey(ucall.recs[i]) : i \in DOMAIN ucall.recs}
           last(k) == ucall.recs[CHOOSE i \in DOMAIN ucall.recs :
                         /\ UKey(ucall.recs[i]) = k
                         /\ \A j \in DOMAIN ucall.recs :
                               UKey(ucall.recs[j]) = k => j <= i]
       IN
       /\ \A k \in keysIn :
            /\ k \in DOMAIN utable
            /\ \A c \in ucall.cols : utable[k][c] = last(k)[c]
            /\ k \in DOMAIN ucall.before =>
                  \A c \in {"state", "level"} \ ucall.cols :
                      utable[k][c] = ucall.before[k][c]
       /\ \A k \in (DOMAIN utable \cup DOMAIN ucall.before) \ keysIn :
            k \in DOMAIN utable /\ k \in DOMAIN ucall.before
               /\ utable[k] = ucall.before[k]

\* C10: DAO.Update of a single record writes the columns named in the call
\* and the configured updated column of the row with the record's primary
\* key, and nothing else: every other column of that row and every other
\* row keep their stored values, whatever the record holds.
UpdateWritesOnlyNamedColumns ==
    (dcall.kind = "ptr" /\ dcall.err = "nil") =>
       LET rec == dcall.recs[1]
           written == dcall.cols \cup {updatedField}
       IN /\ DOMAIN table = DOMAIN dcall.before
          /\ \A id \in DOMAIN table : \A c \in Columns :
                table[id][c] = IF id = rec.id /\ c \in written
                               THEN rec[c] ELSE dcall.before[id][c]

\* A record that differs from its stored row in a column the call does not
\* name has been updated, next to another row.
UpdateWitness ==
    /\ dcall.kind = "ptr" /\ dcall.err = "nil"
    /\ dcall.cols = {"name"}
    /\ updatedField = "changed"
    /\ LET rec == dcall.recs[1] IN
          /\ rec.id \in DOMAIN table
          /\ rec.name = "new" /\ rec.inn = "new" /\ rec.changed = "new"
          /\ rec.updated = "new"
          /\ table[rec.id] = [name |-> "new", inn |-> "old",
                              updated |-> "old", changed |-> "new"]
    /\ Cardinality(DOMAIN table) > 1
\* The rows of the table before the call that match its options.
Matching == {id \in DOMAIN scall.before : Matches(scall.opts, scall.before[id])}

SoftDeleteSameTimestamp ==
    (scall.op = "SoftDelete" /\ scall.err = "nil"
     /\ scall.rec.id \in DOMAIN scall.before) =>
        /\ scall.marked[scall.rec.setter] = scall.now
        /\ Select(stable, scall.rec.id) # {}
        /\ \A row \in Select(stable, scall.rec.id) :
              row[scall.field] = scall.marked[scall.rec.setter]

\* C12 amended: a successful SoftDelete of a record that has a row sets the
\* deleted timestamp on the record; a later Select by primary key still
\* returns the row, changed in no column but the configured deleted and
\* updated ones; and when the record's SetDeleted assigns the field of the
\* configured deleted column, that column holds the record's timestamp
\* rounded to the column's microsecond precision.
SoftDeleteMarksRow ==
    (scall.op = "SoftDelete" /\ scall.err = "nil"
     /\ scall.rec.id \in DOMAIN scall.before) =>
        /\ scall.marked[scall.rec.setter] = scall.now
        /\ DOMAIN stable = DOMAIN scall.before
        /\ Select(stable, scall.rec.id) # {}
        /\ \A row \in Select(stable, scall.rec.id) :
              /\ row.name = scall.before[scall.rec.id].name
              /\ row.inn = scall.before[scall.rec.id].inn
              /\ scall.rec.setter = scall.field =>
                    /\ row[scall.field] = Stamp(scall.marked[scall.rec.setter])
                    /\ row[scall.field] # ZeroTime
        /\ \A id \in DOMAIN stable \ {scall.rec.id} :
              stable[id] = scall.before[id]

SoftDeleteWitness ==
    /\ scall.op = "SoftDelete" /\ scall.err = "nil"
    /\ scall.rec.id \in DOMAIN scall.before
    /\ scall.rec.setter = scall.field
    /\ scall.before[scall.rec.id][scall.field] = ZeroTime
    /\ stable[scall.rec.id][scall.field] = Stamp(scall.now)
    /\ DOMAIN stable \ {scall.rec.id} # {}

RunCleansThenMigrates ==
    /\ (mig.log # <<>> /\ mig.log[Len(mig.log)][1] = "up") =>
          SubSeq(mig.log, 1, Len(mig.log) - 1) = CleanLog(mig.cleanScheme)
    /\ mig.cleanErr # "none" =>
          /\ mig.pc = "done" /\ mig.res = mig.cleanErr
          /\ mig.migrated = 0
          /\ \A k \in DOMAIN mig.log : mig.log[k][1] # "up"
    /\ (mig.pc = "done" /\ mig.res = "nil") =>
          /\ applied = NumMigrations
          /\ Len(mig.cleanScheme) > 0 =>
                SubSeq(mig.log, 1, Len(mig.log) - 1) = CleanLog(mig.cleanScheme)

RunWitness ==
    /\ mig.pc = "done" /\ mig.res = "nil"
    /\ Len(mig.cleanScheme) = MaxSchemes
    /\ mig.migrated = NumMigrations

\* C15: every Client data operation runs, and runs on the transaction the
\* Client held while the operation was under way (the one it saw when it
\* chose its branch, or the one set when it ran) when there was one and on
\* the pooled connection otherwise; and WithContext(ctx) leaves in the
\* Client the transaction ctx carries, or none.
OpsRunOnActiveTx ==
    /\ opEvent.op \in DataOps =>
          /\ ~opEvent.died
          /\ opEvent.target = opEvent.branch \/ opEvent.target = opEvent.active
    /\ opEvent.op = "WithContext" => opEvent.target = opEvent.branch

====
